---------------------------- MODULE Spec2Model ----------------------------
(***************************************************************************)
(* QuectelTowerRK: a worker thread that samples signal strength and, on    *)
(* request, scans serving and neighbour cells with AT+QENG; caller threads *)
(* request scans through a capacity-1 command queue and a single,          *)
(* unsynchronised std::function completion callback.                       *)
(***************************************************************************)
EXTENDS Integers, Sequences, FiniteSets, TLC

(***************************************************************************)
(* Bounds of the model.                                                    *)
(***************************************************************************)
NumCallers == 1          \* caller threads
MaxScans == 2            \* accepted scan requests per behaviour
MaxServingLines == 1     \* lines streamed in answer to AT+QENG="servingcell"
MaxNeighborLines == 0    \* lines streamed in answer to AT+QENG="neighbourcell"

NumThreads == 3          \* threads that call instance()
MaxUptime == 3           \* seconds of System.uptime() the model follows
NumObjects == 2          \* TowerInfo objects of the application
MaxScanLines == 2        \* lines of one answer of a modem that mixes its lines
MaxNeighbors == 2        \* neighbour records the application puts in one object

Callers == 1..NumCallers
Threads == 1..NumThreads
Objects == 1..NumObjects
ScanIds == 1..MaxScans

(***************************************************************************)
(* Result codes and enumerations.                                          *)
(***************************************************************************)
SYSTEM_ERROR_NONE == "SYSTEM_ERROR_NONE"
SYSTEM_ERROR_BUSY == "SYSTEM_ERROR_BUSY"
SYSTEM_ERROR_TIMEOUT == "SYSTEM_ERROR_TIMEOUT"
SYSTEM_ERROR_NOT_ENOUGH_DATA == "SYSTEM_ERROR_NOT_ENOUGH_DATA"
SYSTEM_ERROR_NOT_SUPPORTED == "SYSTEM_ERROR_NOT_SUPPORTED"

CommandCode == {"None", "Measure", "Exit"}
RadioAccessTechnology == {"NONE", "LTE", "LTE_CAT_M1", "LTE_NB_IOT"}

\* os_queue_create(&commandQueue, sizeof(CommandCode), 1, nullptr)
QueueCapacity == 1

(***************************************************************************)
(* Strings are sequences of one-character strings.                         *)
(***************************************************************************)
StrLTE == <<"L", "T", "E">>
StrCATM == <<"C", "A", "T", "-", "M">>
StrEMTC == <<"e", "M", "T", "C">>
StrCATNB == <<"C", "A", "T", "-", "N", "B">>

\* a comparison of the whole string
StrCmpEq(str, prefix) == str = prefix

\* !strncmp(str, prefix, n) with n the length of prefix
StrNCmpEq(str, prefix) ==
    /\ Len(str) >= Len(prefix)
    /\ SubSeq(str, 1, Len(prefix)) = prefix

parseRadioAccessTechnology(str) ==
    IF StrNCmpEq(str, StrCATM) \/ StrNCmpEq(str, StrEMTC) THEN "LTE_CAT_M1"
    ELSE IF StrNCmpEq(str, StrLTE) THEN "LTE"
    ELSE IF StrNCmpEq(str, StrCATNB) THEN "LTE_NB_IOT"
    ELSE "NONE"

(***************************************************************************)
(* A response line is represented by the items sscanf converts from it, in *)
(* the order of the conversions of the format: the sequence is as long as  *)
(* sscanf's return value.                                                  *)
(*   serving:   stateStr, ratStr, mcc, mnc, cellId, lac, signalPower       *)
(*   neighbour: ratStr, earfcn, neighborId, signalQuality, signalPower,    *)
(*              signalStrength                                             *)
(***************************************************************************)
Item(items, i, dflt) == IF Len(items) >= i THEN items[i] ELSE dflt

CellularServingClear ==
    [rat |-> "NONE", mcc |-> 0, mnc |-> 0, cellId |-> 0, lac |-> 0,
     signalPower |-> 0]

\* a parse that sets rat as soon as the technology token is converted
CellularServingParsedEarly(items) ==
    [rat |-> IF Len(items) < 2 THEN "NONE"
             ELSE parseRadioAccessTechnology(items[2]),
     mcc |-> Item(items, 3, 0), mnc |-> Item(items, 4, 0),
     cellId |-> Item(items, 5, 0), lac |-> Item(items, 6, 0),
     signalPower |-> Item(items, 7, 0)]

\* the record after CellularServing::parse(in): clear(), then the converted
\* items are stored, then rat is set when all 7 items were converted
CellularServingParsed(items) ==
    [rat |-> IF Len(items) < 7 THEN "NONE"
             ELSE parseRadioAccessTechnology(items[2]),
     mcc |-> Item(items, 3, 0), mnc |-> Item(items, 4, 0),
     cellId |-> Item(items, 5, 0), lac |-> Item(items, 6, 0),
     signalPower |-> Item(items, 7, 0)]

\* the return value of CellularServing::parse(in)
CellularServingParseRet(items) ==
    IF Len(items) < 7 THEN SYSTEM_ERROR_NOT_ENOUGH_DATA
    ELSE IF parseRadioAccessTechnology(items[2]) = "NONE"
         THEN SYSTEM_ERROR_NOT_SUPPORTED
    ELSE SYSTEM_ERROR_NONE

CellularServingIsValid(s) == s.rat # "NONE"

CellularNeighborClear ==
    [rat |-> "NONE", earfcn |-> 0, neighborId |-> 0, signalQuality |-> 0,
     signalPower |-> 0, signalStrength |-> 0]

CellularNeighborParsed(items) ==
    [rat |-> IF Len(items) < 6 THEN "NONE"
             ELSE parseRadioAccessTechnology(items[1]),
     earfcn |-> Item(items, 2, 0), neighborId |-> Item(items, 3, 0),
     signalQuality |-> Item(items, 4, 0), signalPower |-> Item(items, 5, 0),
     signalStrength |-> Item(items, 6, 0)]

CellularNeighborParseRet(items) ==
    IF Len(items) < 6 THEN SYSTEM_ERROR_NOT_ENOUGH_DATA
    ELSE IF parseRadioAccessTechnology(items[1]) = "NONE"
         THEN SYSTEM_ERROR_NOT_SUPPORTED
    ELSE SYSTEM_ERROR_NONE

CellularNeighborIsValid(n) == n.rat # "NONE"

(***************************************************************************)
(* TowerInfo: one serving record and a vector of neighbour records.        *)
(***************************************************************************)
TowerInfoClear == [serving |-> CellularServingClear, neighbors |-> <<>>]

\* TowerInfo::operator=: the value the destination holds afterwards
TowerInfoAssign(other) ==
    [serving |-> other.serving,
     neighbors |-> [i \in 1..Len(other.neighbors) |-> other.neighbors[i]]]

\* a parseServing that leaves the record alone when the line fails
TowerInfoParseServingKeep(info, items) ==
    IF CellularServingParseRet(items) = SYSTEM_ERROR_NONE
    THEN [info EXCEPT !.serving = CellularServingParsed(items)]
    ELSE info

TowerInfoParseServing(info, items) ==
    [info EXCEPT !.serving = CellularServingParsed(items)]

\* a parseNeighbor that keeps one record of every cell
TowerInfoParseNeighborOnce(info, items) ==
    IF /\ CellularNeighborParseRet(items) = SYSTEM_ERROR_NONE
       /\ \A i \in 1..Len(info.neighbors) :
             info.neighbors[i] # CellularNeighborParsed(items)
    THEN [info EXCEPT !.neighbors = Append(@, CellularNeighborParsed(items))]
    ELSE info

TowerInfoParseNeighbor(info, items) ==
    IF CellularNeighborParseRet(items) = SYSTEM_ERROR_NONE
    THEN [info EXCEPT !.neighbors = Append(@, CellularNeighborParsed(items))]
    ELSE info

TowerInfoIsValid(info) == CellularServingIsValid(info.serving)

(***************************************************************************)
(* The response lines the modelled modem can stream.                       *)
(***************************************************************************)
ServingLineLTE == <<<<"N">>, StrLTE, 310, 410, 1, 26, -85>>
NeighborLineLTE == <<StrLTE, 5110, 7, -11, -94, -65>>

ServingLines == {ServingLineLTE}
NeighborLines == {NeighborLineLTE}

\* a serving line cut after its fourth field, and one of a GSM cell
ServingLineShort == SubSeq(ServingLineLTE, 1, 4)
ServingLineGSM == <<<<"N">>, <<"G", "S", "M">>, 310, 410, 2, 27, -70>>
\* a second neighbour cell, and a neighbour line cut after its third field
NeighborLineOther == <<StrLTE, 5110, 8, -12, -95, -66>>
NeighborLineShort == SubSeq(NeighborLineLTE, 1, 3)

RECURSIVE SeqsUpTo(_, _)
SeqsUpTo(S, n) ==
    IF n = 0 THEN {<<>>}
    ELSE SeqsUpTo(S, n - 1) \cup
         {Append(s, x) : s \in {q \in SeqsUpTo(S, n - 1) : Len(q) = n - 1},
                         x \in S}

\* serving_cb / neighbor_cb applied to every non-terminal line, in order
RECURSIVE FeedServing(_, _)
FeedServing(info, lines) ==
    IF lines = <<>> THEN info
    ELSE FeedServing(TowerInfoParseServing(info, Head(lines)), Tail(lines))

RECURSIVE FeedNeighbor(_, _)
FeedNeighbor(info, lines) ==
    IF lines = <<>> THEN info
    ELSE FeedNeighbor(TowerInfoParseNeighbor(info, Head(lines)), Tail(lines))

(***************************************************************************)
(* State.                                                                  *)
(***************************************************************************)
VARIABLES
    commandQueue,              \* os_queue_t of capacity 1
    scanCallback,              \* bound handler: 0 is nullptr, else a request id
    receivedTowerInfo,         \* working snapshot, filled by the worker
    savedTowerInfo,            \* last-completed snapshot
    cellularSignal,            \* strength of the last cached Cellular.RSSI()
    cellularSignalLastUpdate,  \* System.uptime() of the cached sample, 0 = none
    ready,                     \* Cellular.ready()
    uptime,                    \* System.uptime(), seconds
    wpc,                       \* position of the worker in threadFunction
    event,                     \* command the worker received in this iteration
    wtested,                   \* binding seen by if (scanCallback)
    whandler,                  \* handler whose body the worker is executing
    warg,                      \* by-value TowerInfo argument of the handler
    cpc,                       \* position of each caller thread
    ret,                       \* local ret / last return value of each caller
    done,                      \* scanBlocking's local completion flag
    towerInfo,                 \* each caller's TowerInfo object
    timeoutMs,                 \* timeoutMs argument of scanBlocking
    myReq,                     \* request id obtained by the caller's startScan
    nextId,                    \* next request id
    request,                   \* per request: API, calling thread, return code
    processed,                 \* per request: how the worker left its Measure
    invoked,                   \* <<handler, measure>>: handler ran in measure
    cancelled,                 \* requests accepted before a cancelScan()
    sinceTake,                 \* results of startScan since the last dequeue
    cancelledSince,            \* cancelScan() returned and nothing bound since
    afterTimeout,              \* a Timeout return, and no scan request since
    rssi,                      \* worker local: strength read by Cellular.RSSI()
    uptimeRead,                \* worker local uptime of line 124
    commandFailed,             \* a Cellular.command of this cycle did not end RESP_OK
    mutex,                     \* RecursiveMutex: 0 is free, else the caller holding it
    signal,                    \* each caller's CellularSignal object
    sigRet,                    \* return value of each caller's last getSignal
    maxAge,                    \* max_age argument of the getSignal in progress
    freshAtEntry,              \* the cache was fresh when that getSignal locked
    sigUpdate,                 \* return value of each caller's last getSignalUpdate
    instancePtr,               \* QuectelTowerRK::_instance: 0 is nullptr
    constructed,               \* objects constructed, each starting a worker thread
    ipc,                       \* position of each thread inside instance()
    iref,                      \* object each thread's last instance() returned
    ratStr,                    \* technology token of the line given to a parser
    nitems,                    \* number of fields the line has before it is cut
    parsed,                    \* which parser was called: "none" before the call
    ratOut,                    \* return value of parseRadioAccessTechnology
    servingOut,                \* CellularServing object parse() was called on
    neighborOut,               \* CellularNeighbor object parse() was called on
    parseRet,                  \* return value of the last parse()
    tiServing,                 \* per TowerInfo object: its member serving
    tiVector,                  \* per TowerInfo object: the storage of neighbors
    vectors,                   \* per vector storage: the records it holds
    tiOp,                      \* the last operation on a TowerInfo object
    servingResponses,          \* what the modem can answer to "servingcell"
    neighborResponses,         \* what the modem can answer to "neighbourcell"
    servingFed,                \* lines given to serving_cb since the clear
    neighborFed,               \* lines given to neighbor_cb since the clear
    handed                     \* TowerInfo argument of this iteration's handler

progVars == <<commandQueue, scanCallback, receivedTowerInfo, savedTowerInfo,
              cellularSignal, cellularSignalLastUpdate>>
envVars == <<ready, uptime>>
sampleVars == <<rssi, uptimeRead>>
workerVars == <<wpc, event, wtested, whandler, warg, sampleVars, commandFailed>>
callerVars == <<cpc, ret, done, towerInfo, timeoutMs, myReq>>
historyVars == <<nextId, request, processed, invoked, cancelled, sinceTake,
                 cancelledSince, afterTimeout>>
readerVars == <<mutex, signal, sigRet, maxAge, freshAtEntry, sigUpdate>>
instanceVars == <<instancePtr, constructed, ipc, iref>>
parseVars == <<ratStr, nitems, parsed, ratOut, servingOut, neighborOut, parseRet>>
objectVars == <<tiServing, tiVector, vectors, tiOp>>
modemVars == <<servingResponses, neighborResponses>>
scanVars == <<servingFed, neighborFed, handed>>
readerLocals == <<signal, sigRet, maxAge, freshAtEntry, sigUpdate>>
lockFreeVars == <<readerLocals, instanceVars, parseVars, objectVars, modemVars>>
otherVars == <<readerVars, instanceVars, parseVars, objectVars, modemVars>>
vars == <<progVars, envVars, workerVars, callerVars, historyVars, otherVars,
          scanVars>>

nullptr == 0
Fault == -1
\* the handler passed to a scanWithCallback whose startScan() returned Busy
RejectedHandler == MaxScans + 1
Handlers == ScanIds \cup {RejectedHandler}
NoRequest == [api |-> "none", owner |-> 0, ret |-> "none"]
NoEvent == [code |-> "None", id |-> 0]

\* timeoutMs arguments: 0 waits forever
TimeoutValues == {0, 100}
\* Cellular.RSSI().getStrengthValue(): negative is a reading
Strengths == {-90, 0}

\* getSignal: return value for a stale or missing sample is -ENODATA
ENODATA == 61
\* no getSignal / getSignalUpdate has returned to this caller yet
NoReturn == 1
\* the mutex is held by nobody
Free == 0
\* the holder of the mutex when the worker thread has it
WorkerThread == NumCallers + 1

\* RecursiveMutex: thread th gets the lock when nobody else has it
CanLock(m, th) == m = Free \/ m = th

\* a block that leaves the mutex locked
WithLockKept(th) == th

\* WITH_LOCK(mutex) { ... }: the mutex when thread th leaves the block
WithLock(th) == Free

\* the object after construction, the worker thread waiting for a command
InitCore ==
    /\ commandQueue = <<>>
    /\ scanCallback = nullptr
    /\ receivedTowerInfo = TowerInfoClear
    /\ savedTowerInfo = TowerInfoClear
    /\ cellularSignal = 0
    /\ cellularSignalLastUpdate = 0
    /\ ready \in BOOLEAN
    /\ uptime = 0
    /\ wpc = "wait"
    /\ event = NoEvent
    /\ wtested = nullptr
    /\ whandler = nullptr
    /\ warg = TowerInfoClear
    /\ cpc = [t \in Callers |-> "idle"]
    /\ ret = [t \in Callers |-> SYSTEM_ERROR_NONE]
    /\ done = [t \in Callers |-> FALSE]
    /\ towerInfo = [t \in Callers |-> TowerInfoClear]
    /\ timeoutMs = [t \in Callers |-> 0]
    /\ myReq = [t \in Callers |-> 0]
    /\ nextId = 1
    /\ request = [i \in ScanIds |-> NoRequest]
    /\ processed = [i \in ScanIds |-> "no"]
    /\ invoked = {}
    /\ cancelled = {}
    /\ sinceTake = <<>>
    /\ cancelledSince = FALSE
    /\ afterTimeout = FALSE
    /\ rssi = 0
    /\ uptimeRead = 0
    /\ commandFailed = FALSE
    /\ mutex = Free
    /\ servingFed = <<>>
    /\ neighborFed = <<>>
    /\ handed = TowerInfoClear

\* no caller has called a reader
InitReaders ==
    /\ signal = [t \in Callers |-> 0]
    /\ sigRet = [t \in Callers |-> NoReturn]
    /\ maxAge = [t \in Callers |-> 0]
    /\ freshAtEntry = [t \in Callers |-> FALSE]
    /\ sigUpdate = [t \in Callers |-> NoReturn]

\* instance() has constructed the object, no thread is inside instance()
InitConstructed ==
    /\ instancePtr = 1
    /\ constructed = 1
    /\ ipc = [th \in Threads |-> "idle"]
    /\ iref = [th \in Threads |-> 0]

\* no parser is being called
InitNoParse ==
    /\ ratStr = <<>>
    /\ nitems = 0
    /\ parsed = "none"
    /\ ratOut = "NONE"
    /\ servingOut = CellularServingClear
    /\ neighborOut = CellularNeighborClear
    /\ parseRet = SYSTEM_ERROR_NONE

\* the application has constructed its TowerInfo objects: each is empty and
\* has a vector of its own
NoOp == [op |-> "none", dst |-> 0, src |-> 0]

InitObjects ==
    /\ tiServing = [o \in Objects |-> CellularServingClear]
    /\ tiVector = [o \in Objects |-> o]
    /\ vectors = [o \in Objects |-> <<>>]
    /\ tiOp = NoOp

\* the modem answers a command with up to MaxServingLines / MaxNeighborLines
\* lines of an LTE network
InitModem ==
    /\ servingResponses = SeqsUpTo(ServingLines, MaxServingLines)
    /\ neighborResponses = SeqsUpTo(NeighborLines, MaxNeighborLines)

Init ==
    /\ InitCore /\ InitReaders /\ InitConstructed /\ InitNoParse
    /\ InitObjects /\ InitModem

(***************************************************************************)
(* The command queue.                                                      *)
(***************************************************************************)
\* a queue that takes one command more than its capacity
QueuePutOkOffByOne(q) == Len(q) <= QueueCapacity

\* os_queue_put(commandQueue, &event, 0, nullptr) returns 0
QueuePutOk(q) == Len(q) < QueueCapacity

\* startScan(): return value and queue afterwards
StartScanRet(q) ==
    IF QueuePutOk(q) THEN SYSTEM_ERROR_NONE ELSE SYSTEM_ERROR_BUSY

StartScanQueue(q, id) ==
    IF QueuePutOk(q) THEN Append(q, [code |-> "Measure", id |-> id]) ELSE q

\* results of the first two startScan calls since the last dequeue
Noted(r) == IF Len(sinceTake) < 2 THEN Append(sinceTake, r) ELSE sinceTake

\* what every startScan() does, called by thread t through API api
DoStartScan(t, api) ==
    /\ QueuePutOk(commandQueue) => nextId <= MaxScans
    /\ commandQueue' = StartScanQueue(commandQueue, nextId)
    /\ ret' = [ret EXCEPT ![t] = StartScanRet(commandQueue)]
    /\ sinceTake' = Noted(StartScanRet(commandQueue))
    /\ afterTimeout' = FALSE
    /\ IF StartScanRet(commandQueue) = SYSTEM_ERROR_NONE
       THEN /\ nextId' = nextId + 1
            /\ myReq' = [myReq EXCEPT ![t] =
                            IF api = "startScan" THEN 0 ELSE nextId]
            /\ request' = [request EXCEPT ![nextId] =
                              [api |-> api, owner |-> t,
                               ret |-> IF api = "startScan"
                                       THEN SYSTEM_ERROR_NONE ELSE "pending"]]
       ELSE /\ myReq' = [myReq EXCEPT ![t] =
                            IF api = "startScan" THEN 0 ELSE RejectedHandler]
            /\ UNCHANGED <<nextId, request>>

(***************************************************************************)
(* Caller threads.  The locals of a call are reset when the call returns.  *)
(***************************************************************************)
\* a fault of the worker stops the program
Running == wpc # "crashed"

\* int startScan()
StartScan(t) ==
    /\ Running
    /\ cpc[t] = "idle"
    /\ DoStartScan(t, "startScan")
    /\ UNCHANGED <<scanCallback, receivedTowerInfo, savedTowerInfo,
                   cellularSignal, cellularSignalLastUpdate, envVars,
                   workerVars, cpc, done, towerInfo, timeoutMs, processed,
                   invoked, cancelled, cancelledSince,
                   otherVars, scanVars>>

\* void cancelScan()
CancelScan(t) ==
    /\ Running
    /\ cpc[t] = "idle"
    /\ scanCallback' = nullptr
    /\ cancelled' = cancelled \cup {i \in ScanIds : i < nextId}
    /\ cancelledSince' = TRUE
    /\ UNCHANGED <<commandQueue, receivedTowerInfo, savedTowerInfo,
                   cellularSignal, cellularSignalLastUpdate, envVars,
                   workerVars, callerVars, nextId, request, processed,
                   invoked, sinceTake, afterTimeout,
                   otherVars, scanVars>>

\* a scanWithCallback that binds whatever startScan() returned
BindAllowedAlways(r) == TRUE

\* scanWithCallback, line 62: if (ret == SYSTEM_ERROR_NONE)
BindAllowed(r) == r = SYSTEM_ERROR_NONE

\* a scanWithCallback that binds its handler whatever startScan() returned
BoundAfterAlways(r, cb, h) == h

\* scanWithCallback, lines 62-64: the binding afterwards
BoundAfter(r, cb, h) == IF BindAllowed(r) THEN h ELSE cb

\* scanWithCallback, line 61: int ret = startScan()
ScanWithCallbackStart(t) ==
    /\ Running
    /\ cpc[t] = "idle"
    /\ DoStartScan(t, "scanWithCallback")
    /\ cpc' = [cpc EXCEPT ![t] = "swc_bind"]
    /\ UNCHANGED <<scanCallback, receivedTowerInfo, savedTowerInfo,
                   cellularSignal, cellularSignalLastUpdate, envVars,
                   workerVars, done, towerInfo, timeoutMs, processed,
                   invoked, cancelled, cancelledSince,
                   otherVars, scanVars>>

\* scanWithCallback, lines 62-65
ScanWithCallbackBind(t) ==
    /\ Running
    /\ cpc[t] = "swc_bind"
    /\ scanCallback' = BoundAfter(ret[t], scanCallback, myReq[t])
    /\ cancelledSince' = (cancelledSince /\ scanCallback' = nullptr)
    /\ request' = IF myReq[t] \in ScanIds
                  THEN [request EXCEPT ![myReq[t]].ret = ret[t]]
                  ELSE request
    /\ cpc' = [cpc EXCEPT ![t] = "idle"]
    /\ myReq' = [myReq EXCEPT ![t] = 0]
    /\ UNCHANGED <<commandQueue, receivedTowerInfo, savedTowerInfo,
                   cellularSignal, cellularSignalLastUpdate, envVars,
                   workerVars, ret, done, towerInfo, timeoutMs, nextId,
                   processed, invoked, cancelled, sinceTake, afterTimeout,
                   otherVars, scanVars>>

\* scanBlocking, lines 38-42 up to startScan() inside scanWithCallback
ScanBlockingStart(t) ==
    /\ Running
    /\ cpc[t] = "idle"
    /\ \E tm \in TimeoutValues : timeoutMs' = [timeoutMs EXCEPT ![t] = tm]
    /\ done' = [done EXCEPT ![t] = FALSE]
    /\ DoStartScan(t, "scanBlocking")
    /\ cpc' = [cpc EXCEPT ![t] = "sb_bind"]
    /\ UNCHANGED <<scanCallback, receivedTowerInfo, savedTowerInfo,
                   cellularSignal, cellularSignalLastUpdate, envVars,
                   workerVars, towerInfo, processed, invoked, cancelled,
                   cancelledSince,
                   otherVars, scanVars>>

\* scanBlocking, line 47: if (ret == SYSTEM_ERROR_NONE) enters the wait loop
WaitsAfter(r) == r = SYSTEM_ERROR_NONE

\* scanWithCallback lines 62-65 inside scanBlocking, then line 47 (and 57 when
\* the request was not accepted)
ScanBlockingBind(t) ==
    /\ Running
    /\ cpc[t] = "sb_bind"
    /\ scanCallback' = BoundAfter(ret[t], scanCallback, myReq[t])
    /\ cancelledSince' = (cancelledSince /\ scanCallback' = nullptr)
    /\ IF WaitsAfter(ret[t])
       THEN /\ cpc' = [cpc EXCEPT ![t] = "sb_wait"]
            /\ UNCHANGED <<timeoutMs, myReq>>
       ELSE /\ cpc' = [cpc EXCEPT ![t] = "idle"]
            /\ timeoutMs' = [timeoutMs EXCEPT ![t] = 0]
            /\ myReq' = [myReq EXCEPT ![t] = 0]
    /\ UNCHANGED <<commandQueue, receivedTowerInfo, savedTowerInfo,
                   cellularSignal, cellularSignalLastUpdate, envVars,
                   workerVars, ret, done, towerInfo, nextId, request,
                   processed, invoked, cancelled, sinceTake, afterTimeout,
                   otherVars, scanVars>>

\* scanBlocking, line 48 with done set: the loop ends, line 57 returns ret
ScanBlockingDone(t) ==
    /\ Running
    /\ cpc[t] = "sb_wait"
    /\ done[t]
    /\ cpc' = [cpc EXCEPT ![t] = "idle"]
    /\ request' = [request EXCEPT ![myReq[t]].ret = ret[t]]
    /\ done' = [done EXCEPT ![t] = FALSE]
    /\ timeoutMs' = [timeoutMs EXCEPT ![t] = 0]
    /\ myReq' = [myReq EXCEPT ![t] = 0]
    /\ UNCHANGED <<progVars, envVars, workerVars, ret, towerInfo, nextId,
                   processed, invoked, cancelled, sinceTake, cancelledSince,
                   afterTimeout,
                   otherVars, scanVars>>

\* scanBlocking, lines 48-49: done is not set and the timeout has elapsed
\* (any amount of time may pass between two steps)
ScanBlockingExpire(t) ==
    /\ Running
    /\ cpc[t] = "sb_wait"
    /\ ~done[t]
    /\ timeoutMs[t] # 0
    /\ cpc' = [cpc EXCEPT ![t] = "sb_cancel"]
    /\ UNCHANGED <<progVars, envVars, workerVars, ret, done, towerInfo,
                   timeoutMs, myReq, historyVars,
                   otherVars, scanVars>>

\* scanBlocking, lines 50-52 and 57: cancelScan(), return SYSTEM_ERROR_TIMEOUT
ScanBlockingTimeout(t) ==
    /\ Running
    /\ cpc[t] = "sb_cancel"
    /\ scanCallback' = nullptr
    /\ ret' = [ret EXCEPT ![t] = SYSTEM_ERROR_TIMEOUT]
    /\ cpc' = [cpc EXCEPT ![t] = "idle"]
    /\ request' = [request EXCEPT ![myReq[t]].ret = SYSTEM_ERROR_TIMEOUT]
    /\ done' = [done EXCEPT ![t] = FALSE]
    /\ timeoutMs' = [timeoutMs EXCEPT ![t] = 0]
    /\ myReq' = [myReq EXCEPT ![t] = 0]
    /\ cancelled' = cancelled \cup {i \in ScanIds : i < nextId}
    /\ cancelledSince' = TRUE
    /\ afterTimeout' = TRUE
    /\ UNCHANGED <<commandQueue, receivedTowerInfo, savedTowerInfo,
                   cellularSignal, cellularSignalLastUpdate, envVars,
                   workerVars, towerInfo, nextId, processed, invoked,
                   sinceTake,
                   otherVars, scanVars>>

(***************************************************************************)
(* The worker thread, threadFunction().  The locals of an iteration are    *)
(* reset when the iteration ends.                                          *)
(***************************************************************************)
\* waitOnEvent(PERIOD_SUCCESS_MS): os_queue_take, or None on timeout
WaitOnEvent ==
    /\ wpc = "wait"
    /\ IF commandQueue # <<>>
       THEN /\ event' = Head(commandQueue)
            /\ commandQueue' = Tail(commandQueue)
            /\ sinceTake' = <<>>
       ELSE /\ event' = NoEvent
            /\ UNCHANGED <<commandQueue, sinceTake>>
    /\ wpc' = "rssi"
    /\ handed' = TowerInfoClear
    /\ UNCHANGED <<scanCallback, receivedTowerInfo, savedTowerInfo,
                   cellularSignal, cellularSignalLastUpdate, envVars, wtested,
                   whandler, warg, sampleVars, commandFailed, callerVars,
                   nextId, request, processed, invoked, cancelled,
                   cancelledSince, afterTimeout,
                   otherVars, servingFed, neighborFed>>

\* line 134: where the switch takes the worker
Dispatch(e) == IF e.code = "Measure" THEN "measure" ELSE "wait"

\* a test that takes the reading 0 for a strength
IsReadingOrZero(strength) == strength <= 0

\* line 123: rssi.getStrengthValue() < 0
IsReading(strength) == strength < 0

\* lines 119-124 and 129-131; when nothing has to be stored under the lock,
\* the switch of line 134 follows
SampleSignal ==
    /\ wpc = "rssi"
    /\ IF ready
       THEN \E strength \in Strengths :
               IF IsReading(strength)
               THEN /\ rssi' = strength
                    /\ uptimeRead' = uptime
                    /\ wpc' = "store"
                    /\ UNCHANGED cellularSignalLastUpdate
               ELSE /\ cellularSignalLastUpdate' = 0
                    /\ wpc' = Dispatch(event)
                    /\ UNCHANGED sampleVars
       ELSE /\ wpc' = Dispatch(event)
            /\ UNCHANGED <<cellularSignalLastUpdate, sampleVars>>
    /\ UNCHANGED <<commandQueue, scanCallback, receivedTowerInfo,
                   savedTowerInfo, cellularSignal, envVars, event, wtested,
                   whandler, warg, commandFailed, callerVars, historyVars,
                   otherVars, scanVars>>

\* lines 125-128: WITH_LOCK(mutex), then the switch of line 134
StoreSignal ==
    /\ wpc = "store"
    /\ CanLock(mutex, WorkerThread)
    /\ cellularSignal' = rssi
    /\ cellularSignalLastUpdate' = uptimeRead
    /\ mutex' = WithLock(WorkerThread)
    /\ rssi' = 0
    /\ uptimeRead' = 0
    /\ wpc' = Dispatch(event)
    /\ UNCHANGED <<commandQueue, scanCallback, receivedTowerInfo,
                   savedTowerInfo, envVars, event, wtested, whandler, warg,
                   commandFailed, callerVars, historyVars, lockFreeVars,
                   scanVars>>

\* the end of an iteration of the loop of line 115
EndIteration ==
    /\ wpc' = "wait"
    /\ event' = NoEvent
    /\ wtested' = nullptr
    /\ whandler' = nullptr
    /\ warg' = TowerInfoClear
    /\ commandFailed' = FALSE

\* lines 148-154: what the last-completed snapshot is after a Measure that
\* found the modem not ready
NotReadySaved(saved) == TowerInfoClear

\* a Measure that keeps what the working snapshot held
UnclearedReceived(received) == received

\* lines 156-158: the working snapshot after receivedTowerInfo.clear()
ClearedReceived(received) == TowerInfoClear

\* case CommandCode::Measure, lines 148-158
MeasureBegin ==
    /\ wpc = "measure"
    /\ CanLock(mutex, WorkerThread)
    /\ IF ~ready
       THEN /\ savedTowerInfo' = NotReadySaved(savedTowerInfo)
            /\ processed' = [processed EXCEPT ![event.id] = "notready"]
            /\ EndIteration
            /\ UNCHANGED receivedTowerInfo
       ELSE /\ receivedTowerInfo' = ClearedReceived(receivedTowerInfo)
            /\ wpc' = "serving"
            /\ UNCHANGED <<savedTowerInfo, processed, event, wtested,
                           whandler, warg, commandFailed>>
    /\ mutex' = WithLock(WorkerThread)
    /\ UNCHANGED <<commandQueue, scanCallback, cellularSignal,
                   cellularSignalLastUpdate, envVars, sampleVars, callerVars,
                   nextId,
                   request, invoked, cancelled, sinceTake, cancelledSince,
                   afterTimeout,
                   lockFreeVars, scanVars>>

\* What Cellular.command returns: RESP_OK when the terminal OK line came,
\* RESP_ERROR when the modem rejected the command, WAIT when the 10000 ms
\* ran out.  Lines 160 and 161 drop the value.
TransportResults == {"RESP_OK", "RESP_ERROR", "WAIT"}

\* the flag after a command that returned res
FailedAfter(flag, res) == flag \/ res # "RESP_OK"

\* line 160: Cellular.command(serving_cb, ...) streams lines to serving_cb
ServingCommand ==
    /\ wpc = "serving"
    /\ \E lines \in servingResponses :
          /\ receivedTowerInfo' = FeedServing(receivedTowerInfo, lines)
          /\ servingFed' = lines
    /\ \E res \in TransportResults :
          commandFailed' = FailedAfter(commandFailed, res)
    /\ wpc' = "neighbor"
    /\ UNCHANGED <<commandQueue, scanCallback, savedTowerInfo, cellularSignal,
                   cellularSignalLastUpdate, envVars, event, wtested,
                   whandler, warg, sampleVars, callerVars, historyVars,
                   otherVars, neighborFed, handed>>

\* line 161: Cellular.command(neighbor_cb, ...) streams lines to neighbor_cb
NeighborCommand ==
    /\ wpc = "neighbor"
    /\ \E lines \in neighborResponses :
          /\ receivedTowerInfo' = FeedNeighbor(receivedTowerInfo, lines)
          /\ neighborFed' = lines
    /\ \E res \in TransportResults :
          commandFailed' = FailedAfter(commandFailed, res)
    /\ wpc' = "publish"
    /\ UNCHANGED <<commandQueue, scanCallback, savedTowerInfo, cellularSignal,
                   cellularSignalLastUpdate, envVars, event, wtested,
                   whandler, warg, sampleVars, callerVars, historyVars,
                   otherVars, servingFed, handed>>

\* a worker that does not publish before it notifies
PublishedLate(saved, received) == saved

\* line 164: the last-completed snapshot after savedTowerInfo = receivedTowerInfo
Published(saved, received) == TowerInfoAssign(received)

\* lines 163-165: savedTowerInfo = receivedTowerInfo under the lock; the
\* lines of this Measure have been taken in
Publish ==
    /\ wpc = "publish"
    /\ CanLock(mutex, WorkerThread)
    /\ savedTowerInfo' = Published(savedTowerInfo, receivedTowerInfo)
    /\ mutex' = WithLock(WorkerThread)
    /\ processed' = [processed EXCEPT ![event.id] = "ready"]
    /\ servingFed' = <<>>
    /\ neighborFed' = <<>>
    /\ wpc' = "test"
    /\ UNCHANGED <<commandQueue, scanCallback, receivedTowerInfo,
                   cellularSignal, cellularSignalLastUpdate, envVars, event,
                   wtested, whandler, warg, sampleVars, commandFailed,
                   callerVars, nextId, request, invoked, cancelled, sinceTake,
                   cancelledSince, afterTimeout,
                   lockFreeVars, handed>>

\* line 166: if (scanCallback)
TestCallback ==
    /\ wpc = "test"
    /\ IF scanCallback # nullptr
       THEN /\ wtested' = scanCallback
            /\ wpc' = "call"
            /\ UNCHANGED <<event, whandler, warg, commandFailed>>
       ELSE EndIteration
    /\ UNCHANGED <<progVars, envVars, sampleVars, callerVars, historyVars,
                   otherVars, scanVars>>

\* What line 167 calls.  scanCallback is read again, without a lock.  When a
\* caller thread wrote it after the test of line 166 the read races with the
\* write: the call reaches the new target, or the target seen by the test,
\* or no target at all (std::bad_function_call, a fault).
CallTargets(tested, cb) ==
    IF cb = tested THEN {cb}
    ELSE ({cb} \ {nullptr}) \cup {tested} \cup {Fault}

\* the handler of scanBlocking needs the frame of its call
IsBlockingHandler(h) == h \in ScanIds /\ request[h].api = "scanBlocking"
FrameAlive(h) == request[h].ret = "pending"
InScanBlocking(t) == cpc[t] \in {"sb_bind", "sb_wait", "sb_cancel"}

\* line 167: scanCallback(savedTowerInfo), up to the entry of the handler; a
\* handler given to scanWithCallback by the application runs to its end
InvokeCallback ==
    /\ wpc = "call"
    /\ \E h \in CallTargets(wtested, scanCallback) :
          IF h = Fault
          THEN /\ wpc' = "crashed"
               /\ UNCHANGED <<event, wtested, whandler, warg, invoked,
                              commandFailed, handed>>
          ELSE /\ invoked' = invoked \cup {<<h, event.id>>}
               /\ handed' = TowerInfoAssign(savedTowerInfo)
               /\ IF IsBlockingHandler(h)
                  THEN /\ warg' = TowerInfoAssign(savedTowerInfo)
                       /\ whandler' = h
                       /\ wpc' = "h_done"
                       /\ UNCHANGED <<event, wtested, commandFailed>>
                  ELSE EndIteration
    /\ UNCHANGED <<progVars, envVars, sampleVars, callerVars, nextId, request,
                   processed,
                   cancelled, sinceTake, cancelledSince, afterTimeout,
                   otherVars, servingFed, neighborFed>>

\* A write through a reference captured by the handler of scanBlocking.  The
\* frame of a call that has returned is dead: the write to done lands in the
\* frame of the owner's present scanBlocking call when that occupies the same
\* stack slot, and elsewhere when it does not; the TowerInfo of the caller
\* may or may not be the object of the earlier call.
DoneTargets(h) ==
    IF FrameAlive(h) THEN {TRUE}
    ELSE IF InScanBlocking(request[h].owner) THEN BOOLEAN
    ELSE {FALSE}

InfoTargets(h) == IF FrameAlive(h) THEN {TRUE} ELSE BOOLEAN

\* scanBlocking, line 43, run by the worker: done = true
HandlerSetDone ==
    /\ wpc = "h_done"
    /\ \E hit \in DoneTargets(whandler) :
          done' = IF hit THEN [done EXCEPT ![request[whandler].owner] = TRUE]
                  ELSE done
    /\ wpc' = "h_info"
    /\ UNCHANGED <<progVars, envVars, event, wtested, whandler, warg,
                   sampleVars, commandFailed, cpc, ret, towerInfo, timeoutMs,
                   myReq, historyVars,
                   otherVars, scanVars>>

\* scanBlocking, line 44, run by the worker: towerInfo = tempTowerInfo
HandlerSetInfo ==
    /\ wpc = "h_info"
    /\ \E hit \in InfoTargets(whandler) :
          towerInfo' = IF hit
                       THEN [towerInfo EXCEPT ![request[whandler].owner] =
                                TowerInfoAssign(warg)]
                       ELSE towerInfo
    /\ EndIteration
    /\ UNCHANGED <<progVars, envVars, sampleVars, cpc, ret, done, timeoutMs,
                   myReq, historyVars,
                   otherVars, scanVars>>

(***************************************************************************)
(* The readers, called by caller threads.                                  *)
(***************************************************************************)
\* max_age arguments of getSignal, seconds
MaxAges == {0, 1}

\* a comparison that already rejects a sample of exactly max_age seconds
TooOldInclusive(now, last, age) == now - last >= age

\* getSignal, line 185: System.uptime() - cellularSignalLastUpdate > max_age
TooOld(now, last, age) == now - last > age

\* getSignal, line 183 and the first operand of line 185; line 187 when
\* there is no sample
GetSignalEnter(t) ==
    /\ Running
    /\ cpc[t] = "idle"
    /\ mutex = Free
    /\ \E age \in MaxAges :
          IF cellularSignalLastUpdate = 0
          THEN /\ sigRet' = [sigRet EXCEPT ![t] = -ENODATA]
               /\ UNCHANGED <<mutex, cpc, maxAge, freshAtEntry>>
          ELSE /\ mutex' = t
               /\ cpc' = [cpc EXCEPT ![t] = "gs_age"]
               /\ maxAge' = [maxAge EXCEPT ![t] = age]
               /\ freshAtEntry' =
                     [freshAtEntry EXCEPT ![t] =
                         ~TooOld(uptime, cellularSignalLastUpdate, age)]
               /\ UNCHANGED sigRet
    /\ UNCHANGED <<progVars, envVars, workerVars, ret, done, towerInfo,
                   timeoutMs, myReq, historyVars, signal, sigUpdate,
                   instanceVars, parseVars, objectVars, modemVars, scanVars>>

\* getSignal, the second operand of line 185 and lines 187-191
GetSignalAge(t) ==
    /\ Running
    /\ cpc[t] = "gs_age"
    /\ IF TooOld(uptime, cellularSignalLastUpdate, maxAge[t])
       THEN /\ sigRet' = [sigRet EXCEPT ![t] = -ENODATA]
            /\ UNCHANGED signal
       ELSE /\ signal' = [signal EXCEPT ![t] = cellularSignal]
            /\ sigRet' = [sigRet EXCEPT ![t] = 0]
    /\ mutex' = Free
    /\ cpc' = [cpc EXCEPT ![t] = "idle"]
    /\ maxAge' = [maxAge EXCEPT ![t] = 0]
    /\ freshAtEntry' = [freshAtEntry EXCEPT ![t] = FALSE]
    /\ UNCHANGED <<progVars, envVars, workerVars, ret, done, towerInfo,
                   timeoutMs, myReq, historyVars, sigUpdate, instanceVars,
                   parseVars, objectVars, modemVars, scanVars>>

\* unsigned int getSignalUpdate(), lines 194-197
GetSignalUpdate(t) ==
    /\ Running
    /\ cpc[t] = "idle"
    /\ sigUpdate' = [sigUpdate EXCEPT ![t] = cellularSignalLastUpdate]
    /\ UNCHANGED <<progVars, envVars, workerVars, callerVars, historyVars,
                   mutex, signal, sigRet, maxAge, freshAtEntry, instanceVars,
                   parseVars, objectVars, modemVars, scanVars>>

\* a getTowerInfo that does not copy the signal power of the serving cell
CopiedWithoutPower(own, saved) ==
    [TowerInfoAssign(saved) EXCEPT !.serving.signalPower = own.serving.signalPower]

\* getTowerInfo, line 201: the caller's object afterwards
CopiedTowerInfo(own, saved) == TowerInfoAssign(saved)

\* void getTowerInfo(TowerInfo &towerInfo), lines 199-203
GetTowerInfo(t) ==
    /\ Running
    /\ cpc[t] = "idle"
    /\ mutex = Free
    /\ towerInfo' = [towerInfo EXCEPT ![t] =
                        CopiedTowerInfo(towerInfo[t], savedTowerInfo)]
    /\ UNCHANGED <<progVars, envVars, workerVars, cpc, ret, done, timeoutMs,
                   myReq, historyVars, otherVars, scanVars>>

\* the caller changes its own TowerInfo object: towerInfo.clear()
ClearTowerInfo(t) ==
    /\ Running
    /\ cpc[t] = "idle"
    /\ towerInfo[t] # TowerInfoClear
    /\ towerInfo' = [towerInfo EXCEPT ![t] = TowerInfoClear]
    /\ UNCHANGED <<progVars, envVars, workerVars, cpc, ret, done, timeoutMs,
                   myReq, historyVars, otherVars, scanVars>>

(***************************************************************************)
(* static QuectelTowerRK &instance(), called by any thread.                *)
(***************************************************************************)
\* line 407: if(!_instance)
InstanceTest(th) ==
    /\ ipc[th] = "idle"
    /\ ipc' = [ipc EXCEPT ![th] = IF instancePtr = nullptr THEN "new" ELSE "ret"]
    /\ UNCHANGED <<progVars, envVars, workerVars, callerVars, historyVars,
                   readerVars, instancePtr, constructed, iref, parseVars,
                   objectVars, modemVars, scanVars>>

\* line 409: _instance = new QuectelTowerRK(); the constructor starts a
\* worker thread
InstanceNew(th) ==
    /\ ipc[th] = "new"
    /\ constructed' = constructed + 1
    /\ instancePtr' = constructed + 1
    /\ ipc' = [ipc EXCEPT ![th] = "ret"]
    /\ UNCHANGED <<progVars, envVars, workerVars, callerVars, historyVars,
                   readerVars, iref, parseVars,
                   objectVars, modemVars, scanVars>>

\* line 411: return *_instance
InstanceReturn(th) ==
    /\ ipc[th] = "ret"
    /\ iref' = [iref EXCEPT ![th] = instancePtr]
    /\ ipc' = [ipc EXCEPT ![th] = "idle"]
    /\ UNCHANGED <<progVars, envVars, workerVars, callerVars, historyVars,
                   readerVars, instancePtr, constructed, parseVars,
                   objectVars, modemVars, scanVars>>

(***************************************************************************)
(* The parsers, called on one line.                                        *)
(***************************************************************************)
StrCATM1 == StrCATM \o <<"1">>
StrCATNB1 == StrCATNB \o <<"1">>
StrCATN1 == <<"C", "A", "T", "-", "N", "1">>
StrLTEFDD == StrLTE \o <<"-", "F", "D", "D">>
StrLower == <<"l", "t", "e">>
StrEMTCUpper == <<"E", "M", "T", "C">>
StrEMTCPlus == StrEMTC \o <<"+">>
StrCatmLower == <<"c", "a", "t", "-", "m">>
StrGSM == <<"G", "S", "M">>
StrXLTE == <<"x">> \o StrLTE

Prefixes(s) == {SubSeq(s, 1, n) : n \in 0..Len(s)}

\* technology tokens: the strings above and all their prefixes, the empty
\* string among them
RatStrings ==
    UNION {Prefixes(s) : s \in {StrCATM1, StrCATNB1, StrCATN1, StrLTEFDD,
                                StrLower, StrEMTCUpper, StrEMTCPlus,
                                StrCatmLower, StrGSM, StrXLTE}}

\* What sscanf converts from a serving line with technology token r that is
\* cut after n fields (lines 230-234).  %15[^"] converts no empty string: the
\* conversions stop at an empty token.
ServingScan(r, n) ==
    SubSeq(<<<<"N">>, r, 310, 410, 1, 26, -85>>, 1,
           IF r = <<>> /\ n > 1 THEN 1 ELSE n)

\* the same for a neighbour line (lines 307-309), n at most 6
NeighborScan(r, n) ==
    SubSeq(<<r, 5110, 7, -11, -94, -65>>, 1,
           IF r = <<>> THEN 0 ELSE IF n > 6 THEN 6 ELSE n)

\* parseRadioAccessTechnology(str), called directly
CallParseRat ==
    /\ parsed = "none"
    /\ parsed' = "rat"
    /\ ratOut' = parseRadioAccessTechnology(ratStr)
    /\ UNCHANGED <<progVars, envVars, workerVars, callerVars, historyVars,
                   readerVars, instanceVars, ratStr, nitems, servingOut,
                   neighborOut, parseRet,
                   objectVars, modemVars, scanVars>>

\* CellularServing::parse(in) on the object servingOut
CallParseServing ==
    /\ parsed = "none"
    /\ parsed' = "serving"
    /\ servingOut' = CellularServingParsed(ServingScan(ratStr, nitems))
    /\ parseRet' = CellularServingParseRet(ServingScan(ratStr, nitems))
    /\ UNCHANGED <<progVars, envVars, workerVars, callerVars, historyVars,
                   readerVars, instanceVars, ratStr, nitems, ratOut,
                   neighborOut,
                   objectVars, modemVars, scanVars>>

\* CellularNeighbor::parse(in) on the object neighborOut
CallParseNeighbor ==
    /\ parsed = "none"
    /\ parsed' = "neighbor"
    /\ neighborOut' = CellularNeighborParsed(NeighborScan(ratStr, nitems))
    /\ parseRet' = CellularNeighborParseRet(NeighborScan(ratStr, nitems))
    /\ UNCHANGED <<progVars, envVars, workerVars, callerVars, historyVars,
                   readerVars, instanceVars, ratStr, nitems, ratOut,
                   servingOut,
                   objectVars, modemVars, scanVars>>

(***************************************************************************)
(* TowerInfo objects of the application.  An object is its member serving  *)
(* and its member neighbors, a std::vector with storage of its own; the    *)
(* application copies the objects and changes them through their public    *)
(* members.                                                                *)
(***************************************************************************)
TowerInfoValue(o) ==
    [serving |-> tiServing[o], neighbors |-> vectors[tiVector[o]]]

\* the value v stored in the members of object o
StoreValue(o, v) ==
    /\ tiServing' = [tiServing EXCEPT ![o] = v.serving]
    /\ vectors' = [vectors EXCEPT ![tiVector[o]] = v.neighbors]
    /\ UNCHANGED tiVector

\* an assignment that makes the destination use the vector of the source
SharedVector(own, others) == others

\* lines 386-389: the destination clears its own vector and fills it with
\* copies of the records of the source
AssignedVector(own, others) == own

\* TowerInfo::operator=, lines 383-392: line 386 clears the vector of this,
\* the loop of line 387 then reads the vector of other
Assigned(sv, tv, vs, d, s) ==
    LET cleared == [vs EXCEPT ![tv[d]] = <<>>]
        other == [serving |-> sv[s], neighbors |-> cleared[tv[s]]]
    IN  [serving |-> [sv EXCEPT ![d] = TowerInfoAssign(other).serving],
         vector |-> [tv EXCEPT ![d] = AssignedVector(tv[d], tv[s])],
         vectors |-> [cleared EXCEPT ![tv[d]] =
                         TowerInfoAssign(other).neighbors]]

\* d = s, for any two objects and for d = d
AssignObject(d, s) ==
    LET a == Assigned(tiServing, tiVector, vectors, d, s)
    IN  /\ tiServing' = a.serving
        /\ tiVector' = a.vector
        /\ vectors' = a.vectors
        /\ tiOp' = [op |-> "assign", dst |-> d, src |-> s]
        /\ UNCHANGED <<progVars, envVars, workerVars, callerVars,
                       historyVars, readerVars, instanceVars, parseVars,
                       modemVars, scanVars>>

\* TowerInfo d(s), lines 379-381: a new object in the place of d, its
\* members default-initialised, then *this = other
CopyConstructObject(d, s) ==
    LET a == Assigned([tiServing EXCEPT ![d] = CellularServingClear],
                      [tiVector EXCEPT ![d] = d],
                      [vectors EXCEPT ![d] = <<>>], d, s)
    IN  /\ d # s
        /\ tiServing' = a.serving
        /\ tiVector' = a.vector
        /\ vectors' = a.vectors
        /\ tiOp' = [op |-> "copy", dst |-> d, src |-> s]
        /\ UNCHANGED <<progVars, envVars, workerVars, callerVars,
                       historyVars, readerVars, instanceVars, parseVars,
                       modemVars, scanVars>>

\* o.clear(), lines 417-420
ClearObject(o) ==
    /\ StoreValue(o, TowerInfoClear)
    /\ tiOp' = [op |-> "clear", dst |-> o, src |-> 0]
    /\ UNCHANGED <<progVars, envVars, workerVars, callerVars, historyVars,
                   readerVars, instanceVars, parseVars, modemVars, scanVars>>

\* o.parseServing(in), lines 394-396
ParseServingObject(o) ==
    /\ \E line \in {ServingLineLTE, ServingLineShort} :
          StoreValue(o, TowerInfoParseServing(TowerInfoValue(o), line))
    /\ tiOp' = [op |-> "parseServing", dst |-> o, src |-> 0]
    /\ UNCHANGED <<progVars, envVars, workerVars, callerVars, historyVars,
                   readerVars, instanceVars, parseVars, modemVars, scanVars>>

\* o.parseNeighbor(in), lines 398-405
ParseNeighborObject(o) ==
    /\ Len(vectors[tiVector[o]]) < MaxNeighbors
    /\ StoreValue(o, TowerInfoParseNeighbor(TowerInfoValue(o),
                                            NeighborLineLTE))
    /\ tiOp' = [op |-> "parseNeighbor", dst |-> o, src |-> 0]
    /\ UNCHANGED <<progVars, envVars, workerVars, callerVars, historyVars,
                   readerVars, instanceVars, parseVars, modemVars, scanVars>>

\* o.neighbors.erase(o.neighbors.begin()): the vector is a public member
EraseNeighborObject(o) ==
    /\ vectors[tiVector[o]] # <<>>
    /\ StoreValue(o, [TowerInfoValue(o) EXCEPT !.neighbors = Tail(@)])
    /\ tiOp' = [op |-> "erase", dst |-> o, src |-> 0]
    /\ UNCHANGED <<progVars, envVars, workerVars, callerVars, historyVars,
                   readerVars, instanceVars, parseVars, modemVars, scanVars>>

(***************************************************************************)
(* The environment: the modem attaches and detaches.                       *)
(***************************************************************************)
SetReady ==
    /\ Running
    /\ ready' = ~ready
    /\ UNCHANGED <<progVars, uptime, workerVars, callerVars, historyVars,
                   otherVars, scanVars>>

\* System.uptime() advances by a second
Tick ==
    /\ Running
    /\ uptime < MaxUptime
    /\ uptime' = uptime + 1
    /\ UNCHANGED <<progVars, ready, workerVars, callerVars, historyVars,
                   otherVars, scanVars>>

Next ==
    \/ \E t \in Callers : StartScan(t)
    \/ \E t \in Callers : CancelScan(t)
    \/ \E t \in Callers : ScanWithCallbackStart(t)
    \/ \E t \in Callers : ScanWithCallbackBind(t)
    \/ \E t \in Callers : ScanBlockingStart(t)
    \/ \E t \in Callers : ScanBlockingBind(t)
    \/ \E t \in Callers : ScanBlockingDone(t)
    \/ \E t \in Callers : ScanBlockingExpire(t)
    \/ \E t \in Callers : ScanBlockingTimeout(t)
    \/ WaitOnEvent
    \/ SampleSignal
    \/ StoreSignal
    \/ MeasureBegin
    \/ ServingCommand
    \/ NeighborCommand
    \/ Publish
    \/ TestCallback
    \/ InvokeCallback
    \/ HandlerSetDone
    \/ HandlerSetInfo
    \/ SetReady

Spec == Init /\ [][Next]_vars

(***************************************************************************)
(* The program while the modem stays detached: Cellular.ready() is false   *)
(* throughout, so every Measure takes the branch of lines 148-154 and the  *)
(* statements of lines 156-168 and of the handler are never reached.       *)
(***************************************************************************)
InitDetached == Init /\ ~ready

NextDetached ==
    \/ \E t \in Callers : StartScan(t)
    \/ \E t \in Callers : CancelScan(t)
    \/ \E t \in Callers : ScanWithCallbackStart(t)
    \/ \E t \in Callers : ScanWithCallbackBind(t)
    \/ \E t \in Callers : ScanBlockingStart(t)
    \/ \E t \in Callers : ScanBlockingBind(t)
    \/ \E t \in Callers : ScanBlockingExpire(t)
    \/ \E t \in Callers : ScanBlockingTimeout(t)
    \/ WaitOnEvent
    \/ SampleSignal
    \/ MeasureBegin

SpecDetached == InitDetached /\ [][NextDetached]_vars

(***************************************************************************)
(* The program used through startScan() and the readers only: no handler   *)
(* is ever bound, the worker samples the signal and runs the requested     *)
(* scans while System.uptime() advances.                                   *)
(***************************************************************************)
NextReaders ==
    \/ \E t \in Callers : StartScan(t)
    \/ \E t \in Callers : GetSignalEnter(t)
    \/ \E t \in Callers : GetSignalAge(t)
    \/ \E t \in Callers : GetSignalUpdate(t)
    \/ \E t \in Callers : GetTowerInfo(t)
    \/ \E t \in Callers : ClearTowerInfo(t)
    \/ WaitOnEvent
    \/ SampleSignal
    \/ StoreSignal
    \/ MeasureBegin
    \/ ServingCommand
    \/ NeighborCommand
    \/ Publish
    \/ TestCallback
    \/ SetReady
    \/ Tick

SpecReaders == Init /\ [][NextReaders]_vars

(***************************************************************************)
(* The signal cache alone: no scan is requested, the worker samples the    *)
(* signal on every wake-up and callers read it with getSignal().           *)
(***************************************************************************)
NextSignal ==
    \/ \E t \in Callers : GetSignalEnter(t)
    \/ \E t \in Callers : GetSignalAge(t)
    \/ WaitOnEvent
    \/ SampleSignal
    \/ StoreSignal
    \/ SetReady
    \/ Tick

SpecSignal == Init /\ [][NextSignal]_vars

(***************************************************************************)
(* The worker with scans requested by startScan() and no reader: every     *)
(* iteration of threadFunction, for the commands None and Measure, while   *)
(* System.uptime() advances.                                               *)
(***************************************************************************)
NextSampling ==
    \/ \E t \in Callers : StartScan(t)
    \/ WaitOnEvent
    \/ SampleSignal
    \/ StoreSignal
    \/ MeasureBegin
    \/ ServingCommand
    \/ NeighborCommand
    \/ Publish
    \/ TestCallback
    \/ SetReady
    \/ Tick

SpecSampling == Init /\ [][NextSampling]_vars

(***************************************************************************)
(* Scans requested by startScan() and callers that read the last-completed *)
(* snapshot with getTowerInfo().                                           *)
(***************************************************************************)
NextTowerInfo ==
    \/ \E t \in Callers : StartScan(t)
    \/ \E t \in Callers : GetTowerInfo(t)
    \/ \E t \in Callers : ClearTowerInfo(t)
    \/ WaitOnEvent
    \/ SampleSignal
    \/ StoreSignal
    \/ MeasureBegin
    \/ ServingCommand
    \/ NeighborCommand
    \/ Publish
    \/ TestCallback
    \/ SetReady

SpecTowerInfo == Init /\ [][NextTowerInfo]_vars

(***************************************************************************)
(* The threads of the application up to their calls of instance(): no      *)
(* object exists at the start (line 25), the fields keep the values the    *)
(* constructor gives them.                                                 *)
(***************************************************************************)
InitNotConstructed ==
    /\ instancePtr = nullptr
    /\ constructed = 0
    /\ ipc = [th \in Threads |-> "idle"]
    /\ iref = [th \in Threads |-> 0]

InitInstance ==
    /\ InitCore /\ InitReaders /\ InitNotConstructed /\ InitNoParse
    /\ InitObjects /\ InitModem

NextInstance ==
    \/ \E th \in Threads : InstanceTest(th)
    \/ \E th \in Threads : InstanceNew(th)
    \/ \E th \in Threads : InstanceReturn(th)

SpecInstance == InitInstance /\ [][NextInstance]_vars

(***************************************************************************)
(* The program used through scanWithCallback() only, the modem attached    *)
(* throughout: every handler is a handler of the application and every     *)
(* Measure runs the scan.                                                  *)
(***************************************************************************)
InitAttached == Init /\ ready

NextCallback ==
    \/ \E t \in Callers : ScanWithCallbackStart(t)
    \/ \E t \in Callers : ScanWithCallbackBind(t)
    \/ WaitOnEvent
    \/ SampleSignal
    \/ StoreSignal
    \/ MeasureBegin
    \/ ServingCommand
    \/ NeighborCommand
    \/ Publish
    \/ TestCallback
    \/ InvokeCallback

SpecCallback == InitAttached /\ [][NextCallback]_vars

(***************************************************************************)
(* The parsers applied to one line: the line has any of the technology     *)
(* tokens and is cut after any number of fields, the objects parse() is    *)
(* called on hold nothing or the record of an earlier line.                *)
(***************************************************************************)
InitParse ==
    /\ InitCore /\ InitReaders /\ InitConstructed /\ InitObjects /\ InitModem
    /\ ratStr \in RatStrings
    /\ nitems \in 0..7
    /\ parsed = "none"
    /\ ratOut = "NONE"
    /\ servingOut \in {CellularServingClear,
                       CellularServingParsed(ServingLineLTE)}
    /\ neighborOut \in {CellularNeighborClear,
                        CellularNeighborParsed(NeighborLineLTE)}
    /\ parseRet = SYSTEM_ERROR_NONE

NextParse ==
    \/ CallParseRat
    \/ CallParseServing
    \/ CallParseNeighbor

SpecParse == InitParse /\ [][NextParse]_vars

(***************************************************************************)
(* The TowerInfo objects of the application alone: the application copies  *)
(* them into each other and changes them, the worker does nothing.         *)
(***************************************************************************)
NextObjects ==
    \/ \E d, s \in Objects : AssignObject(d, s)
    \/ \E d, s \in Objects : CopyConstructObject(d, s)
    \/ \E o \in Objects : ClearObject(o)
    \/ \E o \in Objects : ParseServingObject(o)
    \/ \E o \in Objects : ParseNeighborObject(o)
    \/ \E o \in Objects : EraseNeighborObject(o)

SpecObjects == InitAttached /\ [][NextObjects]_vars

(***************************************************************************)
(* Scans requested by one thread with startScan() while the modem stays    *)
(* attached, with a modem that streams any mix of neighbour lines: two     *)
(* different cells and a line that does not parse, which is either a line  *)
(* that is cut short or a line of a GSM cell.                              *)
(***************************************************************************)
NeighborLineGSM == <<<<"G", "S", "M">>, 77, 9, -13, -96, -67>>

ScanNeighborLines(bad) == {NeighborLineLTE, NeighborLineOther, bad}

InitNeighbors ==
    /\ InitCore /\ InitReaders /\ InitConstructed /\ InitNoParse
    /\ InitObjects
    /\ ready
    /\ servingResponses = SeqsUpTo(ServingLines, MaxServingLines)
    /\ \E bad \in {NeighborLineShort, NeighborLineGSM} :
          neighborResponses = SeqsUpTo(ScanNeighborLines(bad), MaxScanLines)

NextNeighbors ==
    \/ StartScan(1)
    \/ WaitOnEvent
    \/ SampleSignal
    \/ StoreSignal
    \/ MeasureBegin
    \/ ServingCommand
    \/ NeighborCommand
    \/ Publish
    \/ TestCallback

SpecNeighbors == InitNeighbors /\ [][NextNeighbors]_vars

(***************************************************************************)
(* The same with a modem that streams any mix of serving lines: a line of  *)
(* an LTE cell, a line that is cut short and a line of a GSM cell; the     *)
(* answer to the neighbour command is no line, the line of a cell or a     *)
(* line that is cut short.                                                 *)
(***************************************************************************)
ScanServingLines == {ServingLineLTE, ServingLineShort, ServingLineGSM}

InitServing ==
    /\ InitCore /\ InitReaders /\ InitConstructed /\ InitNoParse
    /\ InitObjects
    /\ ready
    /\ servingResponses = SeqsUpTo(ScanServingLines, MaxScanLines)
    /\ neighborResponses = {<<>>, <<NeighborLineLTE>>, <<NeighborLineShort>>}

SpecServing == InitServing /\ [][NextNeighbors]_vars

(***************************************************************************)
(* Vocabulary of the properties.                                           *)
(***************************************************************************)
\* thread t calls startScan(), directly or through one of the scan APIs
CallsStartScan(t) ==
    StartScan(t) \/ ScanWithCallbackStart(t) \/ ScanBlockingStart(t)

InQueue(id) == \E i \in 1..Len(commandQueue) : commandQueue[i].id = id
\* the worker has dequeued the Measure of request id and not finished it
Executing(id) == event.id = id /\ wpc # "wait"
Accepted(id) == request[id].api # "none"
\* the worker enters a handler in this step
EntersHandler == wpc = "call" /\ wpc' \in {"h_done", "wait"}
\* the handler entered by this step
Entered == IF wpc' = "h_done" THEN whandler'
           ELSE CHOOSE h \in Handlers : <<h, event.id>> \in invoked' \ invoked
Invocations(h) == {m \in ScanIds : <<h, m>> \in invoked}

(***************************************************************************)
(* C1: startScan() returns SYSTEM_ERROR_NONE and leaves exactly one        *)
(* Measure in the queue exactly when the queue was empty, otherwise it     *)
(* returns SYSTEM_ERROR_BUSY and leaves the queue as it was; the queue     *)
(* never holds more than one command; of the first two startScan() calls   *)
(* made after a dequeue (or after construction) with no dequeue between    *)
(* them, the first succeeds and the second returns Busy.                   *)
(***************************************************************************)
C1_StartScanAdmission ==
    /\ [](/\ Len(commandQueue) <= 1
          /\ sinceTake \in {<<>>, <<SYSTEM_ERROR_NONE>>,
                            <<SYSTEM_ERROR_NONE, SYSTEM_ERROR_BUSY>>})
    /\ [][\A t \in Callers : CallsStartScan(t) =>
             /\ (ret'[t] = SYSTEM_ERROR_NONE) <=> (commandQueue = <<>>)
             /\ (ret'[t] = SYSTEM_ERROR_BUSY) <=> (commandQueue # <<>>)
             /\ commandQueue = <<>> =>
                   /\ Len(commandQueue') = 1
                   /\ commandQueue'[1].code = "Measure"
             /\ commandQueue # <<>> => commandQueue' = commandQueue]_vars

C1_Witness == sinceTake = <<SYSTEM_ERROR_NONE, SYSTEM_ERROR_BUSY>>

(***************************************************************************)
(* C2: the handler is one-shot: when the worker has invoked the bound      *)
(* handler the binding is cleared, and a handler bound by one successful   *)
(* scanWithCallback is invoked at most once.                               *)
(***************************************************************************)
C2_OneShotHandler ==
    /\ [](\A h \in ScanIds : Cardinality(Invocations(h)) <= 1)
    /\ [][EntersHandler /\ wpc' = "wait" => scanCallback' = nullptr]_vars

(***************************************************************************)
(* C3: at most one accepted scan request is outstanding, a Measure in the  *)
(* queue and a Measure the worker is executing both counted; no            *)
(* scanWithCallback or scanBlocking is accepted, and none replaces the     *)
(* bound handler, while the worker executes an accepted scan.              *)
(***************************************************************************)
Outstanding(id) ==
    /\ Accepted(id)
    /\ InQueue(id) \/ Executing(id)
    /\ id \notin cancelled

C3_OneOutstanding ==
    /\ [](Cardinality({id \in ScanIds : Outstanding(id)}) <= 1)
    /\ [][\A t \in Callers :
             /\ (ScanWithCallbackStart(t) \/ ScanBlockingStart(t))
                /\ (\E id \in ScanIds : Outstanding(id) /\ Executing(id))
                => ret'[t] = SYSTEM_ERROR_BUSY
             /\ (ScanWithCallbackBind(t) \/ ScanBlockingBind(t))
                /\ (\E id \in ScanIds : Outstanding(id) /\ Executing(id)
                                         /\ scanCallback = id)
                => scanCallback' = scanCallback]_vars

(***************************************************************************)
(* C4: when scanWithCallback(h) has returned success, the worker has       *)
(* processed its Measure with the modem ready and to the end, and no       *)
(* cancelScan was issued since the request was accepted, h has been        *)
(* invoked for that Measure.                                               *)
(***************************************************************************)
C4_HandlerInvoked ==
    \A id \in ScanIds :
        /\ request[id].api = "scanWithCallback"
        /\ request[id].ret = SYSTEM_ERROR_NONE
        /\ processed[id] = "ready"
        /\ ~Executing(id)
        /\ id \notin cancelled
        => <<id, id>> \in invoked

(***************************************************************************)
(* C5: when its startScan() returned Busy, scanWithCallback returns Busy   *)
(* and leaves the binding as it was, and scanBlocking returns Busy without *)
(* entering its wait loop, without changing the binding and without        *)
(* writing the caller's TowerInfo.                                         *)
(***************************************************************************)
C5_BusyLeavesBinding ==
    /\ [](\A t \in Callers :
             cpc[t] \in {"sb_wait", "sb_cancel"} =>
                 ret[t] = SYSTEM_ERROR_NONE /\ myReq[t] # 0)
    /\ [][\A t \in Callers :
             /\ (ScanWithCallbackStart(t) \/ ScanBlockingStart(t))
                /\ commandQueue # <<>>
                => /\ ret'[t] = SYSTEM_ERROR_BUSY
                   /\ scanCallback' = scanCallback
                   /\ towerInfo' = towerInfo
             /\ (ScanWithCallbackBind(t) \/ ScanBlockingBind(t))
                /\ ret[t] = SYSTEM_ERROR_BUSY
                => /\ scanCallback' = scanCallback
                   /\ ret'[t] = SYSTEM_ERROR_BUSY
                   /\ cpc'[t] = "idle"
                   /\ towerInfo' = towerInfo]_vars

C5_Witness ==
    \E t \in Callers :
        /\ Running
    /\ cpc[t] = "sb_bind"
        /\ ret[t] = SYSTEM_ERROR_BUSY
        /\ scanCallback # nullptr

(***************************************************************************)
(* C6: once scanBlocking has returned Timeout the worker neither enters    *)
(* its handler nor runs a statement of it (the writes of done and of the   *)
(* caller's TowerInfo).                                                    *)
(***************************************************************************)
C6_NoHandlerAfterTimeout ==
    [][/\ EntersHandler => request[Entered].ret # SYSTEM_ERROR_TIMEOUT
       /\ wpc \in {"h_done", "h_info"} /\ wpc' # wpc
          => request[whandler].ret # SYSTEM_ERROR_TIMEOUT]_vars

(***************************************************************************)
(* C7: after scanBlocking returned Timeout the binding is empty and the    *)
(* next scan request (startScan, scanWithCallback or scanBlocking) is      *)
(* accepted, not rejected with Busy.                                       *)
(***************************************************************************)
C7_NoBusyAfterTimeout ==
    /\ [](afterTimeout => scanCallback = nullptr)
    /\ [][\A t \in Callers :
             CallsStartScan(t) /\ afterTimeout
             => ret'[t] = SYSTEM_ERROR_NONE]_vars

(***************************************************************************)
(* C8: scanBlocking returns success only when the worker has published the *)
(* snapshot of the Measure this call enqueued and has run the handler, to  *)
(* its end, for that Measure and for no other, so that the caller's        *)
(* TowerInfo is that snapshot.                                             *)
(***************************************************************************)
C8_BlockingResultIsOwnScan ==
    [][\A t \in Callers :
          ScanBlockingDone(t) =>
              /\ processed[myReq[t]] = "ready"
              /\ Invocations(myReq[t]) = {myReq[t]}
              /\ ~(wpc \in {"h_done", "h_info"} /\ whandler = myReq[t])]_vars

(***************************************************************************)
(* C9: from the return of cancelScan() until a later scanWithCallback or   *)
(* scanBlocking binds a handler, the worker enters no handler.             *)
(***************************************************************************)
C9_NoHandlerAfterCancel ==
    [][EntersHandler => ~cancelledSince]_vars

(***************************************************************************)
(* C10: a Measure processed while the modem is not ready leaves the        *)
(* last-completed snapshot (what getTowerInfo() returns) unchanged, issues *)
(* no transport command and invokes no handler.                            *)
(***************************************************************************)
C10_NotReadyKeepsSnapshot ==
    [][MeasureBegin /\ ~ready =>
          /\ savedTowerInfo' = savedTowerInfo
          /\ receivedTowerInfo' = receivedTowerInfo
          /\ invoked' = invoked
          /\ wpc' = "wait"]_vars

(***************************************************************************)
(* C11: a scan requested while the modem is not connected is not dropped:  *)
(* the worker never leaves the Measure of a request without having run the *)
(* scan, it keeps the request until the modem is ready.                    *)
(***************************************************************************)
C11_ScanWaitsForModem ==
    \A id \in ScanIds : processed[id] # "notready"

(***************************************************************************)
(* C12: in a cycle in which a transport command did not end with RESP_OK   *)
(* the worker does not publish the working snapshot as the last-completed  *)
(* snapshot and enters no handler.                                         *)
(***************************************************************************)
C12_FailedCommandNotPublished ==
    [][commandFailed =>
          /\ savedTowerInfo' = savedTowerInfo
          /\ ~EntersHandler]_vars

(***************************************************************************)
(* C13: scanBlocking with timeoutMs = 0 never takes the timeout exit, and  *)
(* once its request is accepted it returns only after its handler has      *)
(* fired: while the handler has not fired it stays in its wait loop.       *)
(***************************************************************************)
C13_ZeroTimeoutWaitsForHandler ==
    [][\A t \in Callers :
          /\ ScanBlockingExpire(t) \/ ScanBlockingTimeout(t)
             => timeoutMs[t] # 0
          /\ ScanBlockingDone(t) /\ timeoutMs[t] = 0
             => Invocations(myReq[t]) # {}]_vars

\* the cached sample is at most age seconds old
Fresh(age) ==
    /\ cellularSignalLastUpdate # 0
    /\ uptime - cellularSignalLastUpdate <= age

(***************************************************************************)
(* C14: getSignal(maxAge) returns 0 and copies the cached sample exactly   *)
(* when the timestamp is nonzero and uptime - timestamp <= maxAge, else it *)
(* returns -ENODATA and leaves the caller's object as it was: it is stale  *)
(* while the timestamp is the 0 sentinel, and a sample turns stale once    *)
(* more than maxAge seconds have passed.  The test is the one of the cache *)
(* as getSignal finds it at line 185 or, when the worker cleared the       *)
(* timestamp after getSignal took the lock (line 130 takes no lock), as it *)
(* was when the lock was taken.  The timestamp never exceeds the uptime.   *)
(***************************************************************************)
C14_GetSignal ==
    /\ [](cellularSignalLastUpdate <= uptime)
    /\ [][\A t \in Callers :
             /\ GetSignalEnter(t) /\ cellularSignalLastUpdate = 0
                => /\ sigRet'[t] = -ENODATA
                   /\ signal'[t] = signal[t]
                   /\ cpc'[t] = "idle"
             /\ GetSignalEnter(t) /\ cellularSignalLastUpdate # 0
                => /\ cpc'[t] = "gs_age"
                   /\ freshAtEntry'[t] = Fresh(maxAge'[t])
                   /\ signal'[t] = signal[t]
             /\ GetSignalAge(t)
                => /\ sigRet'[t] \in {0, -ENODATA}
                   /\ sigRet'[t] = 0
                      => /\ Fresh(maxAge[t]) \/ freshAtEntry[t]
                         /\ signal'[t] = cellularSignal
                   /\ sigRet'[t] = -ENODATA
                      => /\ ~Fresh(maxAge[t])
                         /\ signal'[t] = signal[t]]_vars

\* a caller that once got the sample was told -ENODATA although a sample is
\* cached: more than a second has passed since it was recorded
C14_Witness ==
    \E t \in Callers :
        /\ cpc[t] = "idle"
        /\ sigRet[t] = -ENODATA
        /\ signal[t] < 0
        /\ cellularSignalLastUpdate # 0
        /\ uptime - cellularSignalLastUpdate > 1

\* the signal cache
CacheVars == <<cellularSignal, cellularSignalLastUpdate>>

(***************************************************************************)
(* C15: every iteration of the worker samples the signal after the wait    *)
(* for a command and before the command (None or Measure) is dispatched.   *)
(* With the modem ready a negative strength is stored as the cached sample *)
(* together with the uptime read at line 124, any other strength sets the  *)
(* timestamp to 0 and leaves the sample; with the modem not ready the      *)
(* cache is left alone.  Nothing else writes the cache, and the sampling   *)
(* goes on when no scan was ever requested.                                *)
(***************************************************************************)
C15_SampleEveryIteration ==
    [][/\ wpc = "wait" /\ wpc' # "wait" => wpc' = "rssi"
       /\ wpc # "measure" /\ wpc' = "measure" => wpc \in {"rssi", "store"}
       /\ wpc = "rssi" /\ wpc' # "rssi" =>
             IF ready
             THEN \/ /\ wpc' = "store"
                     /\ rssi' < 0
                     /\ uptimeRead' = uptime
                     /\ CacheVars' = CacheVars
                  \/ /\ wpc' = Dispatch(event)
                     /\ cellularSignalLastUpdate' = 0
                     /\ cellularSignal' = cellularSignal
             ELSE /\ wpc' = Dispatch(event)
                  /\ CacheVars' = CacheVars
       /\ wpc = "store" /\ wpc' # "store" =>
             /\ wpc' = Dispatch(event)
             /\ cellularSignal' = rssi
             /\ cellularSignalLastUpdate' = uptimeRead
       /\ CacheVars' # CacheVars => wpc \in {"rssi", "store"}]_vars

\* a sample is cached and no scan was ever requested
C15_Witness ==
    /\ nextId = 1
    /\ commandQueue = <<>>
    /\ cellularSignal < 0
    /\ cellularSignalLastUpdate > 0

(***************************************************************************)
(* C16: the worker writes the signal sample, its timestamp and the         *)
(* last-completed snapshot only while it holds the mutex, hence never      *)
(* while a caller holds it; getSignal, getSignalUpdate and getTowerInfo    *)
(* read them only while the caller holds the mutex, hence never while      *)
(* another thread holds it.                                                *)
(***************************************************************************)
C16_SharedStateUnderLock ==
    [][/\ <<CacheVars, savedTowerInfo>>' # <<CacheVars, savedTowerInfo>>
          => mutex = Free
       /\ \A t \in Callers :
             GetSignalUpdate(t) \/ GetTowerInfo(t) \/ GetSignalEnter(t)
             => mutex = Free]_vars

(***************************************************************************)
(* C17: getTowerInfo() makes the caller's object equal to the              *)
(* last-completed snapshot, taken while no other thread holds the mutex,   *)
(* and changes nothing else: not the queue, the snapshots, the binding,    *)
(* the signal cache or the worker's position; clearing the caller's copy   *)
(* afterwards leaves the last-completed snapshot as it was.                *)
(***************************************************************************)
C17_GetTowerInfoFrame ==
    [][\A t \in Callers :
          /\ GetTowerInfo(t)
             => /\ towerInfo'[t] = savedTowerInfo
                /\ mutex = Free /\ mutex' = Free
                /\ UNCHANGED <<progVars, workerVars, nextId, request>>
          /\ ClearTowerInfo(t)
             => /\ towerInfo'[t] = TowerInfoClear
                /\ UNCHANGED <<progVars, workerVars>>]_vars

\* a caller holds a copy of a valid last-completed snapshot
C17_Witness ==
    \E t \in Callers :
        /\ TowerInfoIsValid(savedTowerInfo)
        /\ towerInfo[t] = savedTowerInfo

(***************************************************************************)
(* C18: whatever the threads that call instance() do, at most one object   *)
(* is constructed (so at most one worker thread is started) and every call *)
(* returns the same object.                                                *)
(***************************************************************************)
C18_SingleInstance ==
    /\ constructed <= 1
    /\ \A th1, th2 \in Threads :
          iref[th1] # 0 /\ iref[th2] # 0 => iref[th1] = iref[th2]

(***************************************************************************)
(* C19: a handler is entered only by a step of the worker at line 167,     *)
(* which moves no caller thread; every handler that was entered had been   *)
(* passed to a scanWithCallback whose startScan() returned                 *)
(* SYSTEM_ERROR_NONE; the handler passed to a scanWithCallback that        *)
(* returned Busy is never bound and never entered.                         *)
(***************************************************************************)
C19_AcceptedHandlersOnWorker ==
    /\ [](/\ scanCallback # RejectedHandler
          /\ \A p \in invoked :
                /\ p[1] \in ScanIds
                /\ request[p[1]].api \in {"scanWithCallback", "scanBlocking"}
                /\ request[p[1]].api = "scanWithCallback"
                   => request[p[1]].ret = SYSTEM_ERROR_NONE)
    /\ [][invoked' # invoked =>
             /\ wpc = "call"
             /\ wpc' # "call"
             /\ UNCHANGED callerVars]_vars

\* a handler was entered and the last scanWithCallback returned Busy
C19_Witness ==
    /\ invoked # {}
    /\ \E t \in Callers : cpc[t] = "idle" /\ ret[t] = SYSTEM_ERROR_BUSY

\* the mapping of the technology string, by the prefixes it can start with
StartsWith(s, p) == \E n \in 0..Len(s) : SubSeq(s, 1, n) = p

Mapped(s) ==
    IF StartsWith(s, StrCATM) \/ StartsWith(s, StrEMTC) THEN "LTE_CAT_M1"
    ELSE IF StartsWith(s, StrLTE) THEN "LTE"
    ELSE IF StartsWith(s, StrCATNB) THEN "LTE_NB_IOT"
    ELSE "NONE"

(***************************************************************************)
(* C20: the technology string is mapped by case-sensitive prefix: a string *)
(* that starts with "CAT-M" or "eMTC" gives LTE_CAT_M1, one that starts    *)
(* with "LTE" gives LTE, one that starts with "CAT-NB" gives LTE_NB_IOT,   *)
(* and every other string, the empty one included, gives NONE; a serving   *)
(* or neighbour line of which all fields are converted and whose           *)
(* technology maps to NONE returns SYSTEM_ERROR_NOT_SUPPORTED, and a line  *)
(* with a known technology returns SYSTEM_ERROR_NONE with that technology. *)
(***************************************************************************)
C20_TechnologyMapping ==
    /\ parsed = "rat" =>
          /\ ratOut = Mapped(ratStr)
          /\ ratOut = "LTE_CAT_M1"
             <=> StartsWith(ratStr, StrCATM) \/ StartsWith(ratStr, StrEMTC)
          /\ ratOut = "LTE" <=> StartsWith(ratStr, StrLTE)
          /\ ratOut = "LTE_NB_IOT" <=> StartsWith(ratStr, StrCATNB)
          /\ ratStr = <<>> => ratOut = "NONE"
    /\ parsed = "serving" /\ Len(ServingScan(ratStr, nitems)) = 7 =>
          /\ servingOut.rat = Mapped(ratStr)
          /\ parseRet = IF Mapped(ratStr) = "NONE"
                        THEN SYSTEM_ERROR_NOT_SUPPORTED ELSE SYSTEM_ERROR_NONE
    /\ parsed = "neighbor" /\ Len(NeighborScan(ratStr, nitems)) = 6 =>
          /\ neighborOut.rat = Mapped(ratStr)
          /\ parseRet = IF Mapped(ratStr) = "NONE"
                        THEN SYSTEM_ERROR_NOT_SUPPORTED ELSE SYSTEM_ERROR_NONE

\* a complete serving line with the token "CAT-N1" was refused
C20_Witness ==
    /\ parsed = "serving"
    /\ ratStr = StrCATN1
    /\ nitems = 7
    /\ parseRet = SYSTEM_ERROR_NOT_SUPPORTED

(***************************************************************************)
(* C21: a serving line of which fewer than 7 fields are converted, and a   *)
(* neighbour line of which fewer than 6 are converted, returns             *)
(* SYSTEM_ERROR_NOT_ENOUGH_DATA; after a parse that returned an error      *)
(* (NOT_ENOUGH_DATA or NOT_SUPPORTED) the record has the technology NONE   *)
(* and is not valid, whatever it held before and whichever fields were     *)
(* converted; the record is valid exactly after a parse that returned      *)
(* SYSTEM_ERROR_NONE.                                                      *)
(***************************************************************************)
C21_FailedParseNotValid ==
    /\ parsed = "serving" =>
          /\ Len(ServingScan(ratStr, nitems)) < 7
                => parseRet = SYSTEM_ERROR_NOT_ENOUGH_DATA
          /\ parseRet \in {SYSTEM_ERROR_NONE, SYSTEM_ERROR_NOT_ENOUGH_DATA,
                           SYSTEM_ERROR_NOT_SUPPORTED}
          /\ parseRet # SYSTEM_ERROR_NONE => servingOut.rat = "NONE"
          /\ CellularServingIsValid(servingOut)
                <=> parseRet = SYSTEM_ERROR_NONE
    /\ parsed = "neighbor" =>
          /\ Len(NeighborScan(ratStr, nitems)) < 6
                => parseRet = SYSTEM_ERROR_NOT_ENOUGH_DATA
          /\ parseRet \in {SYSTEM_ERROR_NONE, SYSTEM_ERROR_NOT_ENOUGH_DATA,
                           SYSTEM_ERROR_NOT_SUPPORTED}
          /\ parseRet # SYSTEM_ERROR_NONE => neighborOut.rat = "NONE"
          /\ CellularNeighborIsValid(neighborOut)
                <=> parseRet = SYSTEM_ERROR_NONE

\* a serving line with the token "LTE" was cut after its sixth field: the
\* fields before the cut are stored and the record is not valid
C21_Witness ==
    /\ parsed = "serving"
    /\ ratStr = StrLTE
    /\ nitems = 6
    /\ parseRet = SYSTEM_ERROR_NOT_ENOUGH_DATA
    /\ servingOut.mcc = 310
    /\ ~CellularServingIsValid(servingOut)

\* what object o holds after the step
TowerInfoValueAfter(o) ==
    [serving |-> tiServing'[o], neighbors |-> vectors'[tiVector'[o]]]

(***************************************************************************)
(* C22: assigning a TowerInfo to another, and constructing one as a copy   *)
(* of another, is a deep copy that replaces what the destination held:     *)
(* afterwards the destination equals the source, which is as it was, and   *)
(* every later operation on one object (an assignment to it, clear,        *)
(* parseServing, parseNeighbor, erasing a neighbour) leaves every other    *)
(* object as it was.                                                       *)
(***************************************************************************)
C22_AssignIsDeepCopy ==
    [][/\ \A o \in Objects :
             o # tiOp'.dst => TowerInfoValueAfter(o) = TowerInfoValue(o)
       /\ tiOp'.op \in {"assign", "copy"} =>
             /\ TowerInfoValueAfter(tiOp'.dst) = TowerInfoValueAfter(tiOp'.src)
             /\ tiOp'.dst # tiOp'.src =>
                   TowerInfoValueAfter(tiOp'.dst) = TowerInfoValue(tiOp'.src)]_vars

\* an object with a valid serving record and a neighbour was assigned to
\* another object
C22_Witness ==
    /\ tiOp.op = "assign"
    /\ tiOp.dst # tiOp.src
    /\ TowerInfoIsValid(TowerInfoValue(tiOp.src))
    /\ TowerInfoValue(tiOp.src).neighbors # <<>>
    /\ TowerInfoValue(tiOp.dst) = TowerInfoValue(tiOp.src)

\* a line all of whose fields are there and whose technology is known
ServingLineParses(line) == Len(line) >= 7 /\ Mapped(line[2]) # "NONE"
NeighborLineParses(line) == Len(line) >= 6 /\ Mapped(line[1]) # "NONE"

\* the record a neighbour line that parses stands for
NeighborRecord(line) ==
    [rat |-> Mapped(line[1]), earfcn |-> line[2], neighborId |-> line[3],
     signalQuality |-> line[4], signalPower |-> line[5],
     signalStrength |-> line[6]]

\* the records of the lines that parse, in the order of the lines
RECURSIVE ParsedNeighbors(_)
ParsedNeighbors(lines) ==
    IF lines = <<>> THEN <<>>
    ELSE IF NeighborLineParses(Head(lines))
         THEN <<NeighborRecord(Head(lines))>> \o ParsedNeighbors(Tail(lines))
    ELSE ParsedNeighbors(Tail(lines))

\* the worker publishes: lines 163-165
Publishes == wpc = "publish" /\ wpc' = "test"

(***************************************************************************)
(* C23: what a Measure on an attached modem publishes has, as neighbours,  *)
(* the records of exactly the neighbour lines of that scan that parse, in  *)
(* the order of the lines, a cell that was reported twice twice; a line    *)
(* that does not parse adds nothing, and no neighbour line changes the     *)
(* serving record or a neighbour that is already there.  When the serving  *)
(* answer was one line that parses, the published snapshot is valid and    *)
(* has as many neighbours as neighbour lines parsed.                       *)
(***************************************************************************)
C23_NeighborsAsDelivered ==
    [][/\ Publishes =>
             /\ savedTowerInfo'.neighbors = ParsedNeighbors(neighborFed)
             /\ Len(servingFed) = 1 /\ ServingLineParses(servingFed[1]) =>
                   /\ TowerInfoIsValid(savedTowerInfo')
                   /\ Len(savedTowerInfo'.neighbors) =
                         Cardinality({i \in 1..Len(neighborFed) :
                                         NeighborLineParses(neighborFed[i])})
       /\ wpc = "neighbor" /\ wpc' = "publish" =>
             /\ receivedTowerInfo'.serving = receivedTowerInfo.serving
             /\ SubSeq(receivedTowerInfo'.neighbors, 1,
                       Len(receivedTowerInfo.neighbors))
                   = receivedTowerInfo.neighbors]_vars

\* the published snapshot is valid and has the same cell twice: the modem
\* sent the line of that cell twice
C23_Witness ==
    /\ wpc = "test"
    /\ TowerInfoIsValid(savedTowerInfo)
    /\ Len(savedTowerInfo.neighbors) = 2
    /\ savedTowerInfo.neighbors[1] = savedTowerInfo.neighbors[2]

(***************************************************************************)
(* C24: publication comes before notification.  When the worker enters a   *)
(* completion handler, the Measure it is processing has been published:    *)
(* the last-completed snapshot is the working snapshot of this scan, and   *)
(* the TowerInfo the handler is given equals what getTowerInfo() would     *)
(* copy into any caller's object at that moment.                           *)
(***************************************************************************)
C24_PublishedBeforeNotified ==
    [][EntersHandler =>
          /\ processed[event.id] = "ready"
          /\ savedTowerInfo = receivedTowerInfo
          /\ handed' = savedTowerInfo
          /\ \A t \in Callers :
                CopiedTowerInfo(towerInfo[t], savedTowerInfo) = handed']_vars

\* a handler of the application has just been given a valid snapshot, which
\* is the last-completed one
C24_Witness ==
    /\ wpc = "wait"
    /\ invoked # {}
    /\ TowerInfoIsValid(handed)
    /\ handed = savedTowerInfo

\* the worker is between the clear of line 157 and the end of the handler
InScan == wpc \in {"serving", "neighbor", "publish", "test", "call",
                   "h_done", "h_info"}

(***************************************************************************)
(* C25: the worker does not hold the mutex while a Cellular.command of a   *)
(* scan executes or while a completion handler runs: it has released the   *)
(* mutex when it leaves the clear of lines 156-158 and the copy of lines   *)
(* 163-165, so a reader that needs the mutex is not kept waiting by the    *)
(* worker for the time of a scan.                                          *)
(***************************************************************************)
C25_NoLockAcrossScan ==
    [][/\ InScan' => mutex' # WorkerThread
       /\ EntersHandler => mutex # WorkerThread /\ mutex' # WorkerThread]_vars

\* both commands of a Measure were executed and its handler has run
C25_Witness ==
    /\ wpc = "wait"
    /\ \E id \in ScanIds : processed[id] = "ready" /\ <<id, id>> \in invoked
    /\ mutex = Free

(***************************************************************************)
(* C26: every Measure on an attached modem starts with an empty working    *)
(* snapshot, so what it publishes comes from the lines of that scan alone: *)
(* every published neighbour is the record of a neighbour line of this     *)
(* scan that parses, a valid published serving record has a serving line   *)
(* of this scan that parses, and a scan without a serving line publishes   *)
(* an empty serving record, whatever the scans before it published.        *)
(***************************************************************************)
C26_OnlyThisScan ==
    [][/\ wpc = "measure" /\ wpc' = "serving" =>
             receivedTowerInfo' = TowerInfoClear
       /\ Publishes =>
             /\ Len(savedTowerInfo'.neighbors) <= Len(neighborFed)
             /\ \A i \in 1..Len(savedTowerInfo'.neighbors) :
                   \E j \in 1..Len(neighborFed) :
                      /\ NeighborLineParses(neighborFed[j])
                      /\ savedTowerInfo'.neighbors[i] =
                            NeighborRecord(neighborFed[j])
             /\ TowerInfoIsValid(savedTowerInfo') =>
                   \E j \in 1..Len(servingFed) :
                      ServingLineParses(servingFed[j])
             /\ servingFed = <<>> =>
                   savedTowerInfo'.serving = CellularServingClear]_vars

\* the second Measure got no line at all and is about to publish an empty
\* snapshot over the valid one, with a neighbour, of the first
C26_Witness ==
    /\ wpc = "publish"
    /\ event.id = 2
    /\ servingFed = <<>>
    /\ neighborFed = <<>>
    /\ receivedTowerInfo = TowerInfoClear
    /\ TowerInfoIsValid(savedTowerInfo)
    /\ savedTowerInfo.neighbors # <<>>

\* the record the serving line stands for: the fields that are there, the
\* technology only when the line parses
ServingRecord(line) ==
    [rat |-> IF ServingLineParses(line) THEN Mapped(line[2]) ELSE "NONE",
     mcc |-> Item(line, 3, 0), mnc |-> Item(line, 4, 0),
     cellId |-> Item(line, 5, 0), lac |-> Item(line, 6, 0),
     signalPower |-> Item(line, 7, 0)]

\* the serving record after the lines: that of the last line
LastServing(lines) ==
    IF lines = <<>> THEN CellularServingClear
    ELSE ServingRecord(lines[Len(lines)])

(***************************************************************************)
(* C27: within one Measure the serving record of the working snapshot is   *)
(* that of the last line the serving command streamed, whatever came       *)
(* before it: it is valid exactly when that last line parses, so a line    *)
(* that fails after a line that parsed leaves it, and the published        *)
(* serving record, invalid; the neighbour command does not change it.      *)
(***************************************************************************)
C27_LastServingLineDecides ==
    [][/\ wpc = "serving" /\ wpc' = "neighbor" =>
             /\ receivedTowerInfo'.serving = LastServing(servingFed')
             /\ CellularServingIsValid(receivedTowerInfo'.serving)
                   <=> /\ servingFed' # <<>>
                       /\ ServingLineParses(servingFed'[Len(servingFed')])
       /\ wpc = "neighbor" /\ wpc' = "publish" =>
             receivedTowerInfo'.serving = receivedTowerInfo.serving
       /\ Publishes =>
             savedTowerInfo'.serving = LastServing(servingFed)]_vars

\* the modem sent the line of an LTE cell and then a line cut short: the
\* working snapshot holds the fields of the short line and is not valid
C27_Witness ==
    /\ wpc = "publish"
    /\ servingFed = <<ServingLineLTE, ServingLineShort>>
    /\ receivedTowerInfo.serving.mcc = 310
    /\ receivedTowerInfo.serving.signalPower = 0
    /\ ~TowerInfoIsValid(receivedTowerInfo)

=============================================================================
